---- MODULE Spec2Model ----
(***************************************************************************)
(* kaya: the CreateTransaction pipeline of src/logic.js (payload check,    *)
(* gas-price and nonce checks, transfer / contract dispatch, ledger and    *)
(* contract registry) as served by the handler of src/app.js.              *)
(*                                                                         *)
(* processCreateTxn is an async function: it runs without interruption up  *)
(* to its single await (the scilla interpreter call) and again from the    *)
(* await to its end.  Each of the two parts is one action; requests whose  *)
(* interpreter call is outstanding are kept in inFlight.                   *)
(***************************************************************************)
EXTENDS Integers, Sequences, FiniteSets, TLC

\* ------------------------------------------------------------ bounds
\* number of CreateTransaction requests a behaviour submits
MaxTxns == 2
\* balance every wallet account starts with
InitBalance == 5

\* ------------------------------------------------------------ values
\* A JSON value of a payload: a number or a string (typeof is its type).
Num(n) == [type |-> "number", val |-> n]
Str(s) == [type |-> "string", val |-> s]

\* '0'.repeat(40)
ZeroAddr == "0000000000000000000000000000000000000000"

\* Decimal strings the payloads use, and the integer each one denotes.
StrToInt(s) ==
  CASE s = "-1" -> -1
    [] s = "0" -> 0
    [] s = "1" -> 1
    [] s = "2" -> 2
    [] s = "3" -> 3

\* new BN(x): the integer of a number or of a decimal string
BN(v) == IF v.type = "number" THEN v.val ELSE StrToInt(v.val)

\* JS truthiness of a field that may be absent: undefined, "" and 0 are falsy
Truthy(p, k) ==
  /\ k \in DOMAIN p
  /\ IF p[k].type = "number" THEN p[k].val # 0 ELSE p[k].val # ""

toLowerCaseKept(s) == s

\* String.prototype.toLowerCase on the address spellings in use
toLowerCase(s) ==
  CASE s = "A1" -> "a1"
    [] s = "A2" -> "a2"
    [] OTHER -> s

\* String.prototype.substring(2): drops a two-character prefix such as 0x;
\* of an unprefixed address it leaves a 38-character remainder, no address
substring2(s) ==
  CASE s = "0xa1" -> "a1"
    [] s = "0xa2" -> "a2"
    [] s = "0xa3" -> "a3"
    [] OTHER -> "tail"

\* zCrypto.getAddressFromPublicKey: lower-case hex address of a public key
getAddressFromPublicKey(pk) ==
  CASE pk = "pk1" -> "a1"
    [] pk = "pk2" -> "a2"

\* ------------------------------------------------------------ config
\* config.blockchain.gasPrice and config.blockchain.transferGasCost
blockchainGasPrice == 1
transferGasCost == 1

\* ------------------------------------------------------------ state
VARIABLES
  balance,                  \* wallet: address -> balance
  nonce,                    \* wallet: address -> nonce
  transactions,             \* ledger, in insertion order of its keys
  createdContractsByUsers,  \* registry: creator address -> contract addresses
  responseObj,              \* the (undeclared, hence global) responseObj
  inFlight,                 \* calls suspended at await executeScillaRun
  stateFiles,               \* contracts whose state file the interpreter wrote
  nreq,                     \* requests submitted so far
  resp,                     \* result of the response sent last
  sent                      \* responses sent so far

vars == <<balance, nonce, transactions, createdContractsByUsers, responseObj,
          inFlight, stateFiles, nreq, resp, sent>>

Wallets == {"a1", "a2", ZeroAddr}

\* ------------------------------------------------------------ inputs
PubKeys == {"pk1", "pk2"}
Nonces == {1, 2}
ToAddrs == {ZeroAddr, "A1"}
Amounts == {"-1", "1"}
GasPrices == {"0", "2"}
GasLimits == {"2"}

TransferPayloads ==
  { [version |-> Num(1), nonce |-> Num(n), toAddr |-> Str(to),
     amount |-> Str(a), pubKey |-> Str(pk), gasPrice |-> Str(gp),
     gasLimit |-> Str(gl), signature |-> Str("sig")] :
       n \in Nonces, to \in ToAddrs, a \in Amounts, pk \in PubKeys,
       gp \in GasPrices, gl \in GasLimits }

\* pk1 sends transfers, deployments and contract calls, pk2 transfers only
ContractSenders == {"pk1"}
ContractPayloads ==
  LET base == {p \in TransferPayloads : p.pubKey.val \in ContractSenders}
  IN  { ("code" :> Str("contract")) @@ p : p \in base }
      \cup { ("data" :> Str("call")) @@ p : p \in base }

Payloads == TransferPayloads \cup ContractPayloads

\* what the interpreter may hand back
NextAddresses == {ZeroAddr, "0xa1", "0xa2"}
GasRemainings == {"-1", "0", "2", "3"}

\* ------------------------------------------------------------ wallet
\* components/wallet: the Account Gateway of the specification, section 6
getNonce(addr) == nonce[addr]
sufficientFunds(addr, amount) == balance[addr] >= amount
deductFunds(bal, addr, amount) == [bal EXCEPT ![addr] = @ - amount]
addFunds(bal, addr, amount) == [bal EXCEPT ![addr] = @ + amount]
increaseNonce(non, addr) == [non EXCEPT ![addr] = @ + 1]

\* ------------------------------------------------------------ logic.js
computeContractAddrNext(senderAddr) ==
  [creator |-> senderAddr, nonce |-> getNonce(senderAddr) + 1]

\* sha256(senderAddr ++ nonce).slice(24): the digest is taken to be
\* injective, so the address is the pair it was computed from
computeContractAddr(senderAddr) ==
  [creator |-> senderAddr, nonce |-> getNonce(senderAddr)]

\* sha256 of the JSON text of the payload without its signature
computeTransactionHash(payload) ==
  [k \in DOMAIN payload \ {"signature"} |-> payload[k]]

intersect(a, b) == {x \in a : x \in b}

expectedFields ==
  {"version", "nonce", "toAddr", "amount", "pubKey", "gasPrice", "gasLimit",
   "signature"}

\* data is the params array; the map() over the keys that follows the key
\* tests in the source discards what its callback returns
checkTransactionJson(data) ==
  LET payload == data[1]
      numKeys == Cardinality(DOMAIN payload)
      expected == Cardinality(intersect(DOMAIN payload, expectedFields))
      actual == Cardinality(expectedFields)
  IN  IF numKeys < 8 THEN FALSE
      ELSE IF expected # actual THEN FALSE
      ELSE TRUE

\* new BN(config.blockchain.transferGasCost * config.blockchain.gasPrice)
bnTransferTransactionCost == transferGasCost * blockchainGasPrice

nonceMismatchBelow(payload, userNonce) == payload.nonce.val < userNonce + 1
nonceMismatchStale(payload, userNonce) == payload.nonce.val < userNonce

\* line 169: payload.nonce !== userNonce + 1 (strict: a string never equals)
nonceMismatch(payload, userNonce) == payload.nonce # Num(userNonce + 1)

gasPriceInsufficientFlipped(payload) ==
  BN(payload.gasPrice) > blockchainGasPrice

\* line 160: payload.gasPrice < blockchainGasPrice
gasPriceInsufficient(payload) == BN(payload.gasPrice) < blockchainGasPrice

\* line 181: !payload.code && !payload.data
isTransfer(payload) == ~Truthy(payload, "code") /\ ~Truthy(payload, "data")

totalSumNoFee(bnAmount) == bnAmount

\* line 185: bnAmount.add(bnTransferTransactionCost)
totalSum(bnAmount) == bnAmount + bnTransferTransactionCost

\* lines 197-198: bnAmount.add(bnGasLimit.mul(bnGasPrice))
bnAmountRequiredForTx(payload) ==
  BN(payload.amount) + BN(payload.gasLimit) * BN(payload.gasPrice)

deductableAmountFlipped(payload, gasRemaining) ==
  LET bnGasConsumed == BN(gasRemaining) - BN(payload.gasLimit)
      gasConsumedInZil == BN(payload.gasPrice) * bnGasConsumed
  IN  gasConsumedInZil + BN(payload.amount)

\* lines 216-219: gasPrice * (gasLimit - gasRemaining) + amount
deductableAmount(payload, gasRemaining) ==
  LET bnGasConsumed == BN(payload.gasLimit) - BN(gasRemaining)
      gasConsumedInZil == BN(payload.gasPrice) * bnGasConsumed
  IN  gasConsumedInZil + BN(payload.amount)

multiContractInverted(nextAddr, senderAddress) ==
  nextAddr # ZeroAddr /\ substring2(nextAddr) = senderAddress

\* line 226
multiContract(nextAddr, senderAddress) ==
  nextAddr # ZeroAddr /\ substring2(nextAddr) # senderAddress

isDeploymentAnyTarget(payload) == Truthy(payload, "code")

\* line 233: payload.code && payload.toAddr === '0'.repeat(40)
isDeployment(payload) ==
  Truthy(payload, "code") /\ payload.toAddr = Str(ZeroAddr)

\* lines 239-245
addContract(reg, senderAddress, contractAddr) ==
  IF senderAddress \in DOMAIN reg
  THEN [reg EXCEPT ![senderAddress] = Append(@, contractAddr)]
  ELSE (senderAddress :> <<contractAddr>>) @@ reg

\* zUtils.validation.isAddress: forty hex digits
isAddress(addr) == addr \in {"a1", "a2", "A1", "A2", ZeroAddr}

\* processGetSmartContracts(data, dataPath) against registry reg and the
\* state files present; [threw, value]: the message thrown or the list
processGetSmartContracts(reg, files, data) ==
  LET addr == toLowerCase(data[1])
  IN  IF ~isAddress(addr)
      THEN [threw |-> TRUE, value |-> "Address size inappropriate"]
      ELSE IF addr \notin DOMAIN reg
      THEN [threw |-> TRUE, value |-> "Address does not exist"]
      ELSE IF \E i \in 1..Len(reg[addr]) : reg[addr][i] \notin files
      THEN [threw |-> TRUE, value |-> "Address does not exist"]
      ELSE [threw |-> FALSE,
            value |-> [i \in 1..Len(reg[addr]) |->
                         [address |-> reg[addr][i], state |-> "state"]]]

\* processGetTransaction(data) against ledger txns; [threw, value]: the
\* message thrown or the record.  data is the params array, which is never
\* falsy; of an empty one data[0] is undefined, a key the ledger lacks
processGetTransaction(txns, data) ==
  IF Len(data) > 0 /\ \E i \in 1..Len(txns) : txns[i].ID = data[1]
  THEN [threw |-> FALSE,
        value |-> txns[CHOOSE i \in 1..Len(txns) : txns[i].ID = data[1]]]
  ELSE [threw |-> TRUE, value |-> "Txn Hash not Present."]

\* Object.keys(transactions): the ids in the insertion order of the keys
Keys(txns) == [i \in 1..Len(txns) |-> txns[i].ID]

\* Array.prototype.reverse
reverse(arr) == [i \in 1..Len(arr) |-> arr[Len(arr) + 1 - i]]

processGetRecentTransactionsUnreversed(txns) ==
  [TxnHashes |-> Keys(txns), number |-> Len(Keys(txns))]

\* processGetRecentTransactions() against ledger txns
processGetRecentTransactions(txns) ==
  LET txnhashes == reverse(Keys(txns))
  IN  [TxnHashes |-> txnhashes, number |-> Len(txnhashes)]

\* responseObj.k = v
SetField(obj, k, v) == (k :> v) @@ obj

EmptyObj == [k \in {} |-> ""]

\* makeResponse(id, jsonrpc, data, isErr).result
makeResponse(data, isErr) == IF isErr THEN [Error |-> data] ELSE data

\* transactions[txnId] = txnDetails: a new key goes last, an existing key
\* keeps its place
PutTransaction(txns, txnDetails) ==
  IF \E i \in 1..Len(txns) : txns[i].ID = txnDetails.ID
  THEN [i \in 1..Len(txns) |->
          IF txns[i].ID = txnDetails.ID THEN txnDetails ELSE txns[i]]
  ELSE Append(txns, txnDetails)

TxnDetails(payload) ==
  [ID |-> computeTransactionHash(payload),
   amount |-> payload.amount,
   nonce |-> payload.nonce,
   receipt |-> [cumulative_gas |-> 1, success |-> TRUE],
   senderPubKey |-> payload.pubKey,
   signature |-> payload.signature,
   toAddr |-> payload.toAddr,
   version |-> payload.version]

\* lines 253-272 and the handler's reply: log the transaction, return
\* the global responseObj, answer with it
UpdateTransactions(payload, obj) ==
  /\ transactions' = PutTransaction(transactions, TxnDetails(payload))
  /\ responseObj' = SetField(obj, "TranID", computeTransactionHash(payload))
  /\ resp' = makeResponse(responseObj', FALSE)
  /\ sent' = sent + 1

ThrowUnanswered(message) == UNCHANGED <<resp, sent>>

\* a throw of processCreateTxn, caught by the handler, which answers with
\* the message
Throw(message) ==
  /\ resp' = makeResponse(message, TRUE)
  /\ sent' = sent + 1

MultiContractMsg == "Multi-contract calls are not supported yet."

\* the message of a rejected interpreter run
EngineFailureMsg == "Scilla run failed"

InsufficientGasPriceMsg ==
  "Payload gas price is insufficient. Current gas price is 1"

\* processCreateTxn from its start to the await, with the handler's reply
\* when it ends before the await
CreateTransaction(data) ==
  /\ nreq < MaxTxns
  /\ nreq' = nreq + 1
  /\ UNCHANGED stateFiles
  /\ IF ~checkTransactionJson(data)
     THEN /\ Throw("Invalid Tx Json")
          /\ UNCHANGED <<balance, nonce, transactions,
                         createdContractsByUsers, responseObj, inFlight>>
     ELSE
     LET payload == data[1]
         senderAddress == getAddressFromPublicKey(payload.pubKey.val)
         userNonce == getNonce(senderAddress)
         bnAmount == BN(payload.amount)
     IN
     IF gasPriceInsufficient(payload)
     THEN /\ Throw(InsufficientGasPriceMsg)
          /\ UNCHANGED <<balance, nonce, transactions,
                         createdContractsByUsers, responseObj, inFlight>>
     ELSE IF nonceMismatch(payload, userNonce)
     THEN /\ balance' =
               deductFunds(balance, senderAddress, bnTransferTransactionCost)
          /\ Throw("Invalid Tx Json")
          /\ UNCHANGED <<nonce, transactions, createdContractsByUsers,
                         responseObj, inFlight>>
     ELSE IF isTransfer(payload)
     THEN LET deducted ==
                deductFunds(balance, senderAddress, totalSum(bnAmount))
          IN  /\ balance' =
                   addFunds(deducted, toLowerCase(payload.toAddr.val), bnAmount)
              /\ nonce' = increaseNonce(nonce, senderAddress)
              /\ UpdateTransactions(payload,
                   SetField(EmptyObj, "Info", "Non-contract txn, sent to shard"))
              /\ UNCHANGED <<createdContractsByUsers, inFlight>>
     ELSE LET contractAddr == computeContractAddr(senderAddress)
          IN  IF ~sufficientFunds(senderAddress,
                                  bnAmountRequiredForTx(payload))
              THEN /\ Throw("Insufficient funds")
                   /\ responseObj' = EmptyObj
                   /\ UNCHANGED <<balance, nonce, transactions,
                                  createdContractsByUsers, inFlight>>
              ELSE /\ inFlight' = inFlight \cup
                        {[id |-> nreq + 1, payload |-> payload,
                          contractAddr |-> contractAddr,
                          senderAddress |-> senderAddress]}
                   /\ responseObj' = EmptyObj
                   /\ UNCHANGED <<balance, nonce, transactions,
                                  createdContractsByUsers, resp, sent>>

\* executeScillaRun resolves: processCreateTxn from the await to its end,
\* with the handler's reply
ScillaReturn(t, nextAddress, gasRemaining) ==
  LET payload == t.payload
      senderAddress == t.senderAddress
      contractAddr == t.contractAddr
      nextAddr == nextAddress
      deployment == isDeployment(payload)
  IN
  /\ t \in inFlight
  /\ inFlight' = inFlight \ {t}
  /\ stateFiles' = IF deployment THEN stateFiles \cup {contractAddr}
                   ELSE stateFiles
  /\ balance' = deductFunds(balance, senderAddress,
                            deductableAmount(payload, gasRemaining))
  /\ nonce' = increaseNonce(nonce, senderAddress)
  /\ UNCHANGED nreq
  /\ IF multiContract(nextAddr, senderAddress)
     THEN /\ Throw(MultiContractMsg)
          /\ UNCHANGED <<transactions, createdContractsByUsers, responseObj>>
     ELSE IF deployment
     THEN /\ createdContractsByUsers' =
               addContract(createdContractsByUsers, senderAddress, contractAddr)
          /\ UpdateTransactions(payload,
               SetField(SetField(responseObj, "Info",
                                 "Contract Creation txn, sent to shard"),
                        "ContractAddress", contractAddr))
     ELSE /\ UNCHANGED createdContractsByUsers
          /\ UpdateTransactions(payload,
               SetField(responseObj, "Info",
                 "Contract Txn, Shards Match of the sender and receiver"))

ScillaThrowCharged(t) ==
  /\ t \in inFlight
  /\ inFlight' = inFlight \ {t}
  /\ balance' = deductFunds(balance, t.senderAddress,
                            bnAmountRequiredForTx(t.payload))
  /\ Throw(EngineFailureMsg)
  /\ UNCHANGED <<nonce, transactions, createdContractsByUsers,
                 responseObj, stateFiles, nreq>>

\* executeScillaRun rejects: the await throws, the handler answers
ScillaThrow(t) ==
  /\ t \in inFlight
  /\ inFlight' = inFlight \ {t}
  /\ Throw(EngineFailureMsg)
  /\ UNCHANGED <<balance, nonce, transactions, createdContractsByUsers,
                 responseObj, stateFiles, nreq>>

Init ==
  /\ balance = [a \in Wallets |-> IF a = ZeroAddr THEN 0 ELSE InitBalance]
  /\ nonce = [a \in Wallets |-> 0]
  /\ transactions = <<>>
  /\ createdContractsByUsers = EmptyObj
  /\ responseObj = EmptyObj
  /\ inFlight = {}
  /\ stateFiles = {}
  /\ nreq = 0
  /\ resp = EmptyObj
  /\ sent = 0

Next ==
  \/ \E p \in Payloads : CreateTransaction(<<p>>)
  \/ \E t \in inFlight, a \in NextAddresses, g \in GasRemainings :
       ScillaReturn(t, a, Str(g))
  \/ \E t \in inFlight : ScillaThrow(t)

Spec == Init /\ [][Next]_vars

\* ------------------------------------------------------------ snapshots
\* exportData(): the ledger and the registry as they stand
exportData ==
  [transactions |-> transactions,
   createdContractsByUsers |-> createdContractsByUsers]

LoadDataMerge(txns, contractsByUsers) ==
  /\ transactions' = transactions \o txns
  /\ createdContractsByUsers' = contractsByUsers @@ createdContractsByUsers
  /\ UNCHANGED <<balance, nonce, responseObj, inFlight, stateFiles, nreq,
                 resp, sent>>

\* loadData(txns, contractsByUsers)
LoadData(txns, contractsByUsers) ==
  /\ transactions' = txns
  /\ createdContractsByUsers' = contractsByUsers
  /\ UNCHANGED <<balance, nonce, responseObj, inFlight, stateFiles, nreq,
                 resp, sent>>

\* the requests of the behaviours that also load snapshots
SnapshotPayloads ==
  {p \in Payloads : p.gasPrice = Str("2") /\ p.amount = Str("1")}

\* records of an earlier run: two transfers of pk2 and a deployment of pk1
SavedTransfer(n) ==
  TxnDetails([version |-> Num(1), nonce |-> Num(n), toAddr |-> Str("A1"),
              amount |-> Str("1"), pubKey |-> Str("pk2"),
              gasPrice |-> Str("2"), gasLimit |-> Str("2"),
              signature |-> Str("sig")])

SnapshotLedgers ==
  {<<>>, <<SavedTransfer(1)>>, <<SavedTransfer(2), SavedTransfer(1)>>}

SnapshotRegistries ==
  {EmptyObj,
   "a1" :> <<[creator |-> "a1", nonce |-> 0]>>,
   "a2" :> <<[creator |-> "a2", nonce |-> 0], [creator |-> "a2", nonce |-> 1]>>}

Snapshots ==
  [transactions : SnapshotLedgers,
   createdContractsByUsers : SnapshotRegistries]

SnapshotNext ==
  \/ \E p \in SnapshotPayloads : CreateTransaction(<<p>>)
  \/ \E t \in inFlight, g \in {"0", "2"} : ScillaReturn(t, ZeroAddr, Str(g))
  \/ \E S \in Snapshots : LoadData(S.transactions, S.createdContractsByUsers)

SnapshotSpec == Init /\ [][SnapshotNext]_vars

\* ------------------------------------------------------------ payload shapes
\* the well-formed requests of amount 1
PlainPayloads == {p \in Payloads : p.amount = Str("1")}

\* p with field k set to v
WithField(p, k, v) == (k :> v) @@ p

\* the first contract requests of pk1, signed anew
ResignedPayloads ==
  {WithField(p, "signature", Str("sig2")) :
     p \in {q \in PlainPayloads \ TransferPayloads :
              q.nonce = Num(1) /\ q.gasPrice = Str("2")}}

\* p without field k
WithoutField(p, k) == [f \in DOMAIN p \ {k} |-> p[f]]

\* the first transfer of a sender to A1, the shape the variants start from
FirstTransfers ==
  {p \in PlainPayloads \cap TransferPayloads :
     p.nonce = Num(1) /\ p.toAddr = Str("A1") /\ p.gasPrice = Str("2")}

\* requests that lack a required field
MissingFieldPayloads ==
  {WithoutField(p, "signature") : p \in FirstTransfers}

\* requests that carry a field that is neither required nor code nor data,
\* with all the required fields or in place of one
ExtraFieldPayloads ==
  {WithField(p, "extra", Str("x")) :
     p \in FirstTransfers \cup MissingFieldPayloads}

\* requests with a field of the wrong type: the nonce a string, the amount
\* a number
WrongTypePayloads ==
  {WithField(p, "nonce", Str("1")) : p \in FirstTransfers}
    \cup {WithField(p, "amount", Num(1)) : p \in FirstTransfers}

WidePayloads ==
  PlainPayloads \cup ResignedPayloads \cup MissingFieldPayloads
    \cup ExtraFieldPayloads \cup WrongTypePayloads

WideNext ==
  \/ \E p \in WidePayloads : CreateTransaction(<<p>>)
  \/ \E t \in inFlight, a \in NextAddresses, g \in {"0", "2"} :
       ScillaReturn(t, a, Str(g))
  \/ \E t \in inFlight : ScillaThrow(t)

WideSpec == Init /\ [][WideNext]_vars

\* ------------------------------------------------------------ claims
\* vocabulary of the claims
FixedTransferCost == transferGasCost * blockchainGasPrice
Sender(p) == getAddressFromPublicKey(p.pubKey.val)
\* the account an address names, however its hex digits are cased
AccountOf(addr) == IF addr \in {"a1", "A1"} THEN "a1" ELSE addr
Receiver(p) == AccountOf(p.toAddr.val)
IsError(r) == "Error" \in DOMAIN r
IsSuccess(r) == "TranID" \in DOMAIN r

\* the nonce of p is the one the sender's next transaction must carry
NextNonce(p) == p.nonce = Num(nonce[Sender(p)] + 1)

TransferPath(p) == "code" \notin DOMAIN p /\ "data" \notin DOMAIN p

\* the payloads that pass validation and the gas-price check, by path
Priced ==
  {p \in Payloads : checkTransactionJson(<<p>>)
                      /\ BN(p.gasPrice) >= blockchainGasPrice}
PricedTransfers == {p \in Priced : TransferPath(p)}
PricedContracts == {p \in Priced : ~TransferPath(p)}

\* the step submits a request
Submits == nreq' = nreq + 1

\* the step ends the suspended call t
Ends(t) == t \notin inFlight'

\* C1 as stated: every transfer that passes the checks, whatever its
\* receiver, leaves the sender with balance - amount - fixed cost and
\* nonce + 1.
C1_AnyReceiver ==
  [][\A p \in PricedTransfers :
       (Submits /\ NextNonce(p) /\ CreateTransaction(<<p>>)) =>
         /\ balance'[Sender(p)] =
              balance[Sender(p)] - BN(p.amount) - FixedTransferCost
         /\ nonce'[Sender(p)] = nonce[Sender(p)] + 1]_vars

\* C1 amended: a transfer that passes the checks leaves the sender with
\* nonce + 1 and, when the lower-cased receiver is not the sender, with
\* balance - amount - fixed cost; a transfer to the sender's own address
\* leaves it with balance - fixed cost.
C1_Transfer ==
  [][\A p \in PricedTransfers :
       (Submits /\ NextNonce(p) /\ CreateTransaction(<<p>>)) =>
         /\ nonce'[Sender(p)] = nonce[Sender(p)] + 1
         /\ Receiver(p) # Sender(p) =>
              balance'[Sender(p)] =
                balance[Sender(p)] - BN(p.amount) - FixedTransferCost
         /\ Receiver(p) = Sender(p) =>
              balance'[Sender(p)] = balance[Sender(p)] - FixedTransferCost
     ]_vars

\* a2 has sent amount 1 to a1 as its first request
C1_Witness ==
  /\ nreq = 1
  /\ IsSuccess(resp)
  /\ resp.Info = "Non-contract txn, sent to shard"
  /\ resp.TranID.pubKey = Str("pk2")
  /\ resp.TranID.amount = Str("1")
  /\ resp.TranID.toAddr = Str("A1")
  /\ balance["a2"] = InitBalance - 1 - FixedTransferCost
  /\ balance["a1"] = InitBalance + 1
  /\ nonce["a2"] = 1

\* C2: a payload that passes validation and the gas-price check but whose
\* nonce is not the sender's nonce + 1 is answered with an error, costs the
\* sender exactly the fixed transfer cost, and leaves every nonce, the
\* ledger, the registry and the in-flight calls as they were.
C2_InvalidNonceCharged ==
  [][\A p \in Priced :
       (Submits /\ ~NextNonce(p) /\ CreateTransaction(<<p>>)) =>
         /\ IsError(resp')
         /\ balance' =
              [balance EXCEPT ![Sender(p)] = @ - FixedTransferCost]
         /\ nonce' = nonce
         /\ transactions' = transactions
         /\ createdContractsByUsers' = createdContractsByUsers
         /\ inFlight' = inFlight]_vars

\* a1's first request carried a wrong nonce
C2_Witness ==
  /\ nreq = 1
  /\ IsError(resp)
  /\ balance["a1"] = InitBalance - FixedTransferCost
  /\ nonce["a1"] = 0
  /\ transactions = <<>>
  /\ inFlight = {}


\* C3: two submissions of one sender that carry the same nonce never both
\* succeed, so the ledger never holds two records of one sender and nonce.
C3_SameNonceOnce ==
  \A i, j \in 1..Len(transactions) :
    (/\ transactions[i].senderPubKey = transactions[j].senderPubKey
     /\ transactions[i].nonce = transactions[j].nonce) => i = j

\* C4: a sender's nonce never decreases, and it moves only by one and only
\* in a step that answers a transaction of that sender with success.
C4_NonceOnlyOnSuccess ==
  [][\A a \in Wallets :
       /\ nonce'[a] >= nonce[a]
       /\ nonce'[a] # nonce[a] =>
            /\ nonce'[a] = nonce[a] + 1
            /\ IsSuccess(resp')
            /\ Sender(resp'.TranID) = a]_vars

\* p has been processed successfully: the ledger holds its record
Processed(p) ==
  \E i \in 1..Len(transactions) :
    /\ transactions[i].ID = computeTransactionHash(p)
    /\ transactions[i].signature = p.signature

\* C5: resubmitting a payload that was processed successfully is answered
\* with an error, costs the sender the fixed transfer cost only, and leaves
\* every nonce, every other balance, the ledger and the registry unchanged.
C5_ReplayRejected ==
  [][\A p \in Priced :
       (Submits /\ Processed(p) /\ CreateTransaction(<<p>>)) =>
         /\ IsError(resp')
         /\ resp'.Error = "Invalid Tx Json"
         /\ balance' =
              [balance EXCEPT ![Sender(p)] = @ - FixedTransferCost]
         /\ nonce' = nonce
         /\ transactions' = transactions
         /\ createdContractsByUsers' = createdContractsByUsers
         /\ inFlight' = inFlight]_vars

\* a2 sent 1 to a1, then sent the same payload again
C5_Witness ==
  /\ nreq = 2
  /\ IsError(resp)
  /\ Len(transactions) = 1
  /\ transactions[1].senderPubKey = Str("pk2")
  /\ transactions[1].amount = Str("1")
  /\ nonce["a2"] = 1
  /\ balance["a2"] = InitBalance - 1 - 2 * FixedTransferCost
  /\ balance["a1"] = InitBalance + 1

\* contract payload p reaches the interpreter call
ReachesEngine(p) ==
  /\ NextNonce(p)
  /\ balance[Sender(p)] >=
       BN(p.amount) + BN(p.gasLimit) * BN(p.gasPrice)

\* C6: a transaction whose interpreter call fails commits nothing: neither
\* its step up to the call nor the step in which the call fails changes a
\* balance, a nonce, the ledger or the registry.
C6_EngineFailureCommitsNothing ==
  [][/\ \A p \in PricedContracts :
          (Submits /\ ReachesEngine(p) /\ CreateTransaction(<<p>>)) =>
            UNCHANGED <<balance, nonce, transactions,
                        createdContractsByUsers>>
     /\ \A t \in inFlight :
          (/\ inFlight' = inFlight \ {t}
           /\ IsError(resp')
           /\ resp'.Error = EngineFailureMsg) =>
            UNCHANGED <<balance, nonce, transactions,
                        createdContractsByUsers>>]_vars

\* the only request so far was a deployment whose interpreter call failed
C6_Witness ==
  /\ nreq = 1
  /\ inFlight = {}
  /\ IsError(resp)
  /\ resp.Error = EngineFailureMsg
  /\ \A a \in Wallets : nonce[a] = 0
  /\ balance["a1"] = InitBalance /\ balance["a2"] = InitBalance
  /\ transactions = <<>>
  /\ createdContractsByUsers = EmptyObj


\* the spelling of address a with the 0x prefix
WithPrefix(a) ==
  CASE a = "a1" -> "0xa1"
    [] a = "a2" -> "0xa2"

\* next names an address that is neither all zeros nor the sender's
ThirdParty(next, sender) ==
  next \notin {ZeroAddr, sender, WithPrefix(sender)}

Deployment(p) == "code" \in DOMAIN p /\ p.toAddr.val = ZeroAddr

\* C7: when the interpreter returns a nextAddress that is neither all zeros
\* nor the sender's address, the request is answered with the multi-contract
\* error and neither the ledger nor the registry changes.
C7_MultiContractWritesNothing ==
  [][\A t \in inFlight, a \in NextAddresses, g \in GasRemainings :
       (/\ Ends(t)
        /\ ThirdParty(a, t.senderAddress)
        /\ ScillaReturn(t, a, Str(g))) =>
         /\ resp' = [Error |-> MultiContractMsg]
         /\ transactions' = transactions
         /\ createdContractsByUsers' = createdContractsByUsers]_vars

\* a deployment ran (its state file exists) and was refused as multi-contract
C7_Witness ==
  /\ IsError(resp)
  /\ resp.Error = MultiContractMsg
  /\ stateFiles # {}
  /\ inFlight = {}
  /\ transactions = <<>>
  /\ createdContractsByUsers = EmptyObj

\* the address derived from a sender and a nonce
DerivedAddress(sender, n) == [creator |-> sender, nonce |-> n]

QuerySpellings(sender) == IF sender = "a1" THEN {"a1", "A1"} ELSE {sender}

\* the addresses a query for creator q lists, <<>> when it throws
Listed(reg, files, q) ==
  LET r == processGetSmartContracts(reg, files, <<q>>)
  IN  IF r.threw THEN <<>>
      ELSE [i \in 1..Len(r.value) |-> r.value[i].address]

\* C8: a successful deployment is answered with the address derived from
\* the sender and the nonce the sender had when the transaction passed its
\* nonce check (the payload's nonce - 1); a query for the sender then lists
\* the earlier addresses followed by this one, and no later step removes or
\* moves an address a query lists.
C8_DeploymentListed ==
  [][/\ \A t \in inFlight, a \in NextAddresses, g \in GasRemainings :
          (/\ Ends(t)
           /\ Deployment(t.payload)
           /\ ScillaReturn(t, a, Str(g))
           /\ IsSuccess(resp')) =>
            /\ resp'.ContractAddress =
                 DerivedAddress(t.senderAddress, t.payload.nonce.val - 1)
            /\ \A q \in QuerySpellings(t.senderAddress) :
                 Listed(createdContractsByUsers', stateFiles', q) =
                   Append(Listed(createdContractsByUsers, stateFiles, q),
                          resp'.ContractAddress)
     /\ \/ UNCHANGED <<createdContractsByUsers, stateFiles>>
        \/ \A q \in {"a1", "A1", "a2"} :
             LET before == Listed(createdContractsByUsers, stateFiles, q)
                 after == Listed(createdContractsByUsers', stateFiles', q)
             IN  /\ Len(after) >= Len(before)
                 /\ \A i \in 1..Len(before) : after[i] = before[i]]_vars

\* a1 has deployed twice, at nonce 0 and at nonce 1
C8_Witness ==
  /\ IsSuccess(resp)
  /\ "a1" \in DOMAIN createdContractsByUsers
  /\ Listed(createdContractsByUsers, stateFiles, "A1") =
       <<DerivedAddress("a1", 0), DerivedAddress("a1", 1)>>
  /\ resp.ContractAddress = DerivedAddress("a1", 1)

\* reg with address c appended to the list of creator s
Appended(reg, s, c) ==
  [a \in DOMAIN reg \cup {s} |->
     IF a = s
     THEN Append(IF s \in DOMAIN reg THEN reg[s] ELSE <<>>, c)
     ELSE reg[a]]

\* C9: the registry changes only in the step that answers a deployment
\* (code present, toAddr all zeros) with success, and then by one address
\* appended to the sender's list; every successful deployment appends one.
C9_RegistryOnlyOnDeployment ==
  [][/\ createdContractsByUsers' # createdContractsByUsers =>
          \E t \in inFlight :
            /\ Deployment(t.payload)
            /\ inFlight' = inFlight \ {t}
            /\ IsSuccess(resp')
            /\ resp'.TranID = computeTransactionHash(t.payload)
            /\ \E n \in 0..MaxTxns :
                 createdContractsByUsers' =
                   Appended(createdContractsByUsers, t.senderAddress,
                            DerivedAddress(t.senderAddress, n))
     /\ \A t \in inFlight, a \in NextAddresses, g \in GasRemainings :
          (/\ Ends(t)
           /\ Deployment(t.payload)
           /\ ScillaReturn(t, a, Str(g))
           /\ IsSuccess(resp')) =>
            createdContractsByUsers' # createdContractsByUsers]_vars

\* one deployment of a1 succeeded, and a later contract call of a1 with
\* code but a non-zero toAddr succeeded without touching the registry
C9_Witness ==
  /\ DOMAIN createdContractsByUsers = {"a1"}
  /\ Len(createdContractsByUsers["a1"]) = 1
  /\ Len(transactions) = 2
  /\ IsSuccess(resp)
  /\ "code" \in DOMAIN resp.TranID
  /\ resp.TranID.toAddr = Str("A1")
  /\ resp.TranID.pubKey = Str("pk1")

\* what the sender of transfer p is debited in a step, the credit of a
\* transfer to itself set apart
TransferDebit(p) ==
  balance[Sender(p)] - balance'[Sender(p)]
    + (IF Receiver(p) = Sender(p) THEN BN(p.amount) ELSE 0)

\* C10 as stated: whatever gasRemaining the interpreter returns, a contract
\* transaction debits its sender at least 0 and at most
\* gasLimit * gasPrice + amount; a transfer debits amount + fixed cost.
C10_AnyGasRemaining ==
  [][/\ \A t \in inFlight, a \in NextAddresses, g \in GasRemainings :
          (Ends(t) /\ ScillaReturn(t, a, Str(g))) =>
            LET s == t.senderAddress
                p == t.payload
            IN  /\ balance[s] - balance'[s] >= 0
                /\ balance[s] - balance'[s] <=
                     BN(p.gasLimit) * BN(p.gasPrice) + BN(p.amount)
     /\ \A p \in PricedTransfers :
          (Submits /\ NextNonce(p) /\ CreateTransaction(<<p>>)) =>
            TransferDebit(p) = BN(p.amount) + FixedTransferCost]_vars

\* C10 amended: when the interpreter returns 0 <= gasRemaining <= gasLimit
\* and the amount is not negative, a contract transaction debits its sender
\* at least 0 and at most gasLimit * gasPrice + amount; a transfer debits
\* amount + fixed cost.
C10_GasBounds ==
  [][/\ \A t \in inFlight, a \in NextAddresses, g \in GasRemainings :
          (/\ Ends(t)
           /\ 0 <= StrToInt(g)
           /\ StrToInt(g) <= BN(t.payload.gasLimit)
           /\ BN(t.payload.amount) >= 0
           /\ ScillaReturn(t, a, Str(g))) =>
            LET s == t.senderAddress
                p == t.payload
            IN  /\ balance[s] - balance'[s] >= 0
                /\ balance[s] - balance'[s] <=
                     BN(p.gasLimit) * BN(p.gasPrice) + BN(p.amount)
     /\ \A p \in PricedTransfers :
          (Submits /\ NextNonce(p) /\ CreateTransaction(<<p>>)) =>
            TransferDebit(p) = BN(p.amount) + FixedTransferCost]_vars

\* a1 ran a contract transaction of amount 1 that used all its gas, and
\* paid gasLimit * gasPrice + amount = 5
C10_Witness ==
  /\ nreq = 1
  /\ inFlight = {}
  /\ IsSuccess(resp)
  /\ resp.TranID.pubKey = Str("pk1")
  /\ resp.TranID.amount = Str("1")
  /\ "data" \in DOMAIN resp.TranID
  /\ balance["a1"] = InitBalance - 5

\* C11: exportData() right after loadData(S.transactions,
\* S.createdContractsByUsers) returns S, whatever the ledger and the
\* registry held before: the load replaces, it does not merge.
C11_SnapshotRoundTrip ==
  [][\A S \in Snapshots :
       LoadData(S.transactions, S.createdContractsByUsers) =>
         exportData' = S]_vars

\* a1 made a transaction, then a snapshot holding one record of pk2 and one
\* contract of a2's was loaded: a1's record is gone
C11_Witness ==
  /\ nonce["a1"] = 1
  /\ nonce["a2"] = 0
  /\ exportData.transactions = <<SavedTransfer(1)>>
  /\ DOMAIN exportData.createdContractsByUsers = {"a2"}

\* the step answers a request: at once, or when its interpreter call ends
Answers ==
  \/ Submits /\ inFlight' = inFlight
  \/ nreq' = nreq /\ inFlight' # inFlight

Range(seq) == {seq[i] : i \in 1..Len(seq)}

\* C12: processGetRecentTransactions lists every recorded id exactly once
\* with number their count, newest first: a step that answers with a new
\* TranID puts it in front of the list, one that answers with an id already
\* recorded or with an error, and every other step, leaves the list as it
\* was.
C12_RecentNewestFirst ==
  [][LET before == processGetRecentTransactions(transactions)
         after == processGetRecentTransactions(transactions')
     IN  /\ after.number = Cardinality(Range(after.TxnHashes))
         /\ after.number = Len(after.TxnHashes)
         /\ Range(after.TxnHashes) =
              {transactions'[i].ID : i \in 1..Len(transactions')}
         /\ IF Answers /\ IsSuccess(resp')
                 /\ resp'.TranID \notin Range(before.TxnHashes)
            THEN after.TxnHashes = <<resp'.TranID>> \o before.TxnHashes
            ELSE after = before]_vars

\* a transfer of pk2 was recorded first and a transaction of pk1 second: the
\* list starts with pk1's id
C12_Witness ==
  LET recent == processGetRecentTransactions(transactions)
  IN  /\ recent.number = 2
      /\ recent.TxnHashes[1].pubKey = Str("pk1")
      /\ recent.TxnHashes[2].pubKey = Str("pk2")
      /\ resp = [Info |-> "Non-contract txn, sent to shard",
                 TranID |-> recent.TxnHashes[1]]

\* C13: a record the ledger holds is returned unchanged by every later
\* processGetTransaction of its id, whatever transactions come after; the
\* record a step writes carries the fields of the payload it answers; an id
\* the ledger never held yields the not-found error.
C13_RecordImmutable ==
  [][/\ \A i \in 1..Len(transactions) :
          processGetTransaction(transactions', <<transactions[i].ID>>) =
            [threw |-> FALSE, value |-> transactions[i]]
     /\ \A p \in WidePayloads :
          computeTransactionHash(p) \notin Range(Keys(transactions')) =>
            processGetTransaction(transactions', <<computeTransactionHash(p)>>)
              = [threw |-> TRUE, value |-> "Txn Hash not Present."]]_vars

\* a payload as section 3 of the specification wants it: the eight required
\* fields, code and data at most besides, version and nonce numbers and the
\* other required fields strings
WellFormed(p) ==
  /\ DOMAIN p \ {"code", "data"} = expectedFields
  /\ \A k \in expectedFields :
       p[k].type = IF k \in {"version", "nonce"} THEN "number" ELSE "string"

\* why a request that is rejected before the interpreter call is rejected
Cause(p) ==
  IF ~WellFormed(p) THEN "malformed payload"
  ELSE IF BN(p.gasPrice) < blockchainGasPrice THEN "insufficient gas price"
  ELSE IF ~NextNonce(p) THEN "invalid nonce"
  ELSE "insufficient funds"

\* submitted now, p would be answered with error m
RejectedWith(p, m) ==
  ENABLED (CreateTransaction(<<p>>) /\ resp' = [Error |-> m])

\* completing now with nextAddress a, the call t would be answered with
\* error m
RefusedWith(t, a, m) ==
  ENABLED (ScillaReturn(t, a, Str("0")) /\ resp' = [Error |-> m])

Messages ==
  {"Invalid Tx Json", InsufficientGasPriceMsg, "Insufficient funds",
   MultiContractMsg}

\* C14: an error message belongs to one cause of rejection: two requests
\* that would be rejected with the same message are rejected for the same
\* cause, and the message of a refused multi-contract call is the message of
\* no rejected request.
C14_DistinctErrors ==
  \A m \in Messages :
    /\ \A p, q \in WidePayloads :
         (RejectedWith(p, m) /\ RejectedWith(q, m)) => Cause(p) = Cause(q)
    /\ \A p \in WidePayloads, t \in inFlight, a \in NextAddresses :
         ~(RejectedWith(p, m) /\ RefusedWith(t, a, m))

\* the server takes every request and completes every suspended call
Serving ==
  /\ nreq < MaxTxns =>
       \A p \in WidePayloads : ENABLED CreateTransaction(<<p>>)
  /\ \A t \in inFlight :
       /\ ENABLED ScillaReturn(t, ZeroAddr, Str("0"))
       /\ ENABLED ScillaThrow(t)

\* C15: a step that answers a request sends exactly one response, an Error
\* envelope unless it is the TranID of a record the ledger now holds, and no
\* other step sends one; after an Error answer the server still takes every
\* request and completes every suspended call.
C15_RejectionAnswered ==
  [][/\ IF Answers
        THEN /\ sent' = sent + 1
             /\ \/ IsError(resp') /\ DOMAIN resp' = {"Error"}
                \/ /\ IsSuccess(resp')
                   /\ resp'.TranID \in Range(Keys(transactions'))
        ELSE sent' = sent
     /\ IsError(resp) => Serving]_vars

\* a first request was refused without charge; the second, a transfer of
\* pk1, was accepted and answered
C15_Witness ==
  /\ sent = 2
  /\ nreq = 2
  /\ IsSuccess(resp)
  /\ resp.TranID.pubKey = Str("pk1")
  /\ Len(transactions) = 1
  /\ nonce["a1"] = 1
  /\ balance["a1"] + balance["a2"] + balance[ZeroAddr]
       = 2 * InitBalance - FixedTransferCost

\* p lacks one of the eight required fields
LacksField(p) == expectedFields \ DOMAIN p # {}

\* C16: a request refused because its payload lacks a required field,
\* because its gasPrice is below the configured minimum (its nonce right or
\* wrong), or, on the contract path, because the sender's balance is below
\* amount + gasLimit * gasPrice, is answered with the error of that cause
\* and changes no balance, no nonce, not the ledger and not the registry.
C16_RejectedUncharged ==
  [][\A p \in WidePayloads :
       (Submits /\ CreateTransaction(<<p>>)) =>
         /\ LacksField(p) =>
              /\ IsError(resp')
              /\ UNCHANGED <<balance, nonce, transactions,
                             createdContractsByUsers>>
         /\ (~LacksField(p) /\ BN(p.gasPrice) < blockchainGasPrice) =>
              /\ resp' = [Error |-> InsufficientGasPriceMsg]
              /\ UNCHANGED <<balance, nonce, transactions,
                             createdContractsByUsers>>
         /\ (/\ ~LacksField(p)
             /\ BN(p.gasPrice) >= blockchainGasPrice
             /\ NextNonce(p)
             /\ ~TransferPath(p)
             /\ balance[Sender(p)] <
                  BN(p.amount) + BN(p.gasLimit) * BN(p.gasPrice)) =>
              /\ resp' = [Error |-> "Insufficient funds"]
              /\ inFlight' = inFlight
              /\ UNCHANGED <<balance, nonce, transactions,
                             createdContractsByUsers>>]_vars

\* pk1 was charged for a wrong nonce, then its contract request was refused
\* for insufficient funds and cost nothing
C16_Witness ==
  /\ nreq = 2
  /\ resp = [Error |-> "Insufficient funds"]
  /\ balance["a1"] = InitBalance - FixedTransferCost
  /\ balance["a2"] = InitBalance
  /\ \A a \in Wallets : nonce[a] = 0
  /\ transactions = <<>>
  /\ createdContractsByUsers = EmptyObj

\* the field names of p are the eight required ones, code and data at most
\* besides
ExactFields(p) == DOMAIN p \ {"code", "data"} = expectedFields

\* C17: checkTransactionJson passes a payload only when its field names are
\* exactly the eight required ones, optionally with code and data: a request
\* that lacks a required field or carries any other field is refused as
\* malformed, which changes no balance, no nonce and not the ledger.
C17_ExactFieldNames ==
  [][\A p \in WidePayloads :
       (Submits /\ ~ExactFields(p) /\ CreateTransaction(<<p>>)) =>
         /\ ~checkTransactionJson(<<p>>)
         /\ resp' = [Error |-> "Invalid Tx Json"]
         /\ UNCHANGED <<balance, nonce, transactions>>]_vars

\* every required field p carries has its type: version and nonce numbers,
\* the others strings
WellTyped(p) ==
  \A k \in expectedFields \cap DOMAIN p :
    p[k].type = IF k \in {"version", "nonce"} THEN "number" ELSE "string"

\* C18: checkTransactionJson fails for a payload whose version or nonce is
\* not a number or whose other required fields are not all strings: the
\* request is refused as malformed, which changes no balance, no nonce and
\* not the ledger.
C18_TypesChecked ==
  [][\A p \in WidePayloads :
       (Submits /\ ~WellTyped(p) /\ CreateTransaction(<<p>>)) =>
         /\ ~checkTransactionJson(<<p>>)
         /\ resp' = [Error |-> "Invalid Tx Json"]
         /\ UNCHANGED <<balance, nonce, transactions>>]_vars

\* the sum of all account balances
TotalBalance(bal) == bal["a1"] + bal["a2"] + bal[ZeroAddr]

\* C19: a successful transfer credits amount to the account of the
\* lower-cased toAddr (on top of the debit when that is the sender) and
\* changes no account but the sender's and the receiver's: the sum of all
\* balances falls by the fixed transfer cost.
C19_TransferCredit ==
  [][\A p \in PricedTransfers :
       (Submits /\ NextNonce(p) /\ CreateTransaction(<<p>>)) =>
         /\ IsSuccess(resp')
         /\ \A a \in Wallets \ {Sender(p), Receiver(p)} :
              balance'[a] = balance[a]
         /\ Receiver(p) # Sender(p) =>
              balance'[Receiver(p)] = balance[Receiver(p)] + BN(p.amount)
         /\ Receiver(p) = Sender(p) =>
              balance'[Sender(p)] =
                balance[Sender(p)] - (BN(p.amount) + FixedTransferCost)
                  + BN(p.amount)
         /\ TotalBalance(balance') = TotalBalance(balance) - FixedTransferCost
     ]_vars

\* pk1 has sent amount 1 to its own address, spelled A1, and pk2 amount 1
\* to a1
C19_Witness ==
  /\ nreq = 2
  /\ Len(transactions) = 2
  /\ \A i \in 1..2 : /\ transactions[i].toAddr = Str("A1")
                      /\ transactions[i].amount = Str("1")
  /\ nonce["a1"] = 1
  /\ nonce["a2"] = 1
  /\ balance["a1"] = InitBalance - FixedTransferCost + 1
  /\ balance["a2"] = InitBalance - FixedTransferCost - 1
  /\ balance[ZeroAddr] = 0

\* C20: when the interpreter returns 0 <= gasRemaining <= gasLimit, the
\* deduction of a contract transaction leaves its sender's balance at zero
\* or above, whatever was processed while its interpreter call was
\* outstanding.
C20_ContractNeverOverdraws ==
  [][\A t \in inFlight, a \in NextAddresses, g \in GasRemainings :
       (/\ Ends(t)
        /\ 0 <= StrToInt(g)
        /\ StrToInt(g) <= BN(t.payload.gasLimit)
        /\ ScillaReturn(t, a, Str(g))) =>
         balance'[t.senderAddress] >= 0]_vars

\* every contract address the registry holds, with its creator and place
RegistryEntries ==
  UNION {{<<a, i>> : i \in 1..Len(createdContractsByUsers[a])} :
           a \in DOMAIN createdContractsByUsers}

\* C21: the contract addresses the registry holds are pairwise distinct: no
\* address stands twice in one creator's list, nor in the lists of two
\* creators.
C21_DistinctContractAddresses ==
  \A e, f \in RegistryEntries :
    createdContractsByUsers[e[1]][e[2]] = createdContractsByUsers[f[1]][f[2]]
      => e = f

\* the ledger records whose senderPubKey is pk
RecordsOf(pk) ==
  {i \in 1..Len(transactions) : transactions[i].senderPubKey = Str(pk)}

\* C22: when no interpreter call is outstanding, each sender's nonce, which
\* starts at 0, equals the number of ledger records that carry the sender's
\* public key.
C22_NonceCountsRecords ==
  inFlight = {} =>
    \A pk \in PubKeys :
      nonce[getAddressFromPublicKey(pk)] = Cardinality(RecordsOf(pk))

====
